---- MODULE Spec2Model ----
(***************************************************************************)
(* FITS2PNG_JSON.py: the header normaliser (header_to_dict,                *)
(* extract_comments, extract_metadata), the renderer's result              *)
(* (render_png) and the batch conversion loop with its ZIP packaging.      *)
(*                                                                         *)
(* Strings the code takes apart (file names, header values parsed by       *)
(* float() and Time()) are sequences of one-character strings.  Floating   *)
(* point numbers are exact fractions [num, den] in lowest terms.           *)
(***************************************************************************)
EXTENDS Integers, Sequences, FiniteSets, TLC

\* ------------------------------------------------------------------ bounds

\* Largest height and width of an image buffer drawn as an input.
MaxDim == 2
\* Largest number of files in one uploaded batch.
MaxFiles == 3

\* ------------------------------------------------------------- characters

Digits == {"0", "1", "2", "3", "4", "5", "6", "7", "8", "9"}

DigitVal(c) ==
  CASE c = "0" -> 0 [] c = "1" -> 1 [] c = "2" -> 2 [] c = "3" -> 3
    [] c = "4" -> 4 [] c = "5" -> 5 [] c = "6" -> 6 [] c = "7" -> 7
    [] c = "8" -> 8 [] c = "9" -> 9

AllDigits(s) == \A i \in 1..Len(s) : s[i] \in Digits

RECURSIVE DigitsVal(_)
DigitsVal(s) ==
  IF s = <<>> THEN 0
  ELSE 10 * DigitsVal(SubSeq(s, 1, Len(s) - 1)) + DigitVal(s[Len(s)])

RECURSIVE Pow10(_)
Pow10(n) == IF n = 0 THEN 1 ELSE 10 * Pow10(n - 1)

\* ---------------------------------------------------------------- numbers

Abs(n) == IF n < 0 THEN -n ELSE n

RECURSIVE GCD(_, _)
GCD(a, b) == IF b = 0 THEN a ELSE GCD(b, a % b)

\* The float n/d (d > 0), in lowest terms.
Frac(n, d) ==
  LET g == GCD(Abs(n), d)
  IN  [num |-> n \div g, den |-> d \div g]

\* ----------------------------------------------------------- header cards

\* A card value as astropy hands it over: a Python int, a Python str, a
\* numpy scalar (boxed) or the Undefined object of a card without a value.
IntVal(n) == [kind |-> "int", n |-> n, s |-> <<>>]
NpIntVal(n) == [kind |-> "np_int", n |-> n, s |-> <<>>]
StrVal(s) == [kind |-> "str", n |-> 0, s |-> s]
UndefVal == [kind |-> "undef", n |-> 0, s |-> <<>>]

Card(k, v, c) == [keyword |-> k, value |-> v, comment |-> c]

\* float(val) of lines 54-57.  A str converts when it is an optional minus
\* sign followed by digits with at most one point and at least one digit
\* (exponents, blanks and the words nan and inf are not among the inputs).
PointAt(s) == IF \E i \in 1..Len(s) : s[i] = "."
              THEN CHOOSE i \in 1..Len(s) : s[i] = "." ELSE 0

UnsignedOk(s) ==
  LET p == PointAt(s)
  IN  IF p = 0 THEN s # <<>> /\ AllDigits(s)
      ELSE /\ Len(s) > 1
           /\ AllDigits(SubSeq(s, 1, p - 1))
           /\ AllDigits(SubSeq(s, p + 1, Len(s)))

UnsignedFloat(s) ==
  LET p == PointAt(s)
  IN  IF p = 0 THEN Frac(DigitsVal(s), 1)
      ELSE Frac(DigitsVal(SubSeq(s, 1, p - 1) \o SubSeq(s, p + 1, Len(s))),
                Pow10(Len(s) - p))

Negate(x) == [num |-> -x.num, den |-> x.den]

FloatOk(v) ==
  CASE v.kind \in {"int", "np_int"} -> TRUE
    [] v.kind = "str" ->
         IF v.s # <<>> /\ v.s[1] = "-" THEN UnsignedOk(Tail(v.s))
         ELSE UnsignedOk(v.s)
    [] OTHER -> FALSE

Float(v) ==
  IF v.kind \in {"int", "np_int"} THEN Frac(v.n, 1)
  ELSE IF v.s[1] = "-" THEN Negate(UnsignedFloat(Tail(v.s)))
  ELSE UnsignedFloat(v.s)

\* Time(val).iso of line 44.  Time() takes a str "YYYY-MM-DD", optionally
\* followed by "T" or a blank and "HH:MM:SS"; any other value raises.  .iso
\* is "YYYY-MM-DD HH:MM:SS.000".
Num2(s, i) == 10 * DigitVal(s[i]) + DigitVal(s[i + 1])

DateOk(s) ==
  /\ Len(s) >= 10
  /\ \A i \in {1, 2, 3, 4, 6, 7, 9, 10} : s[i] \in Digits
  /\ s[5] = "-" /\ s[8] = "-"
  /\ Num2(s, 6) \in 1..12
  /\ Num2(s, 9) \in 1..31

ClockOk(s) ==
  /\ Len(s) = 19
  /\ s[11] \in {"T", " "}
  /\ \A i \in {12, 13, 15, 16, 18, 19} : s[i] \in Digits
  /\ s[14] = ":" /\ s[17] = ":"
  /\ Num2(s, 12) \in 0..23
  /\ Num2(s, 15) \in 0..59
  /\ Num2(s, 18) \in 0..59

TimeOk(v) ==
  /\ v.kind = "str"
  /\ DateOk(v.s)
  /\ Len(v.s) = 10 \/ ClockOk(v.s)

Midnight == <<"0", "0", ":", "0", "0", ":", "0", "0">>
Millis == <<".", "0", "0", "0">>

TimeIso(v) ==
  SubSeq(v.s, 1, 10) \o <<" ">>
    \o (IF Len(v.s) = 10 THEN Midnight ELSE SubSeq(v.s, 12, 19))
    \o Millis

\* --------------------------------------------------------- Python's dict

EmptyDict == <<>>

Put(d, k, v) == [x \in (DOMAIN d) \cup {k} |-> IF x = k THEN v ELSE d[x]]

\* ----------------------------------------------------- astropy's Header

\* `k in header` and `header[k]` of lines 42, 44, 52, 54-57: astropy looks
\* the keyword up in the card list and, for a keyword held by several
\* cards, yields the first of them.
HeaderContains(header, k) == \E i \in 1..Len(header) : header[i].keyword = k

HeaderGet(header, k) ==
  LET first == CHOOSE i \in 1..Len(header) :
                 /\ header[i].keyword = k
                 /\ \A j \in 1..(i - 1) : header[j].keyword # k
  IN  header[first].value

\* ------------------------------------------------------- header_to_dict

\* val.item() of lines 21-22: a numpy scalar becomes the plain Python one.
Unbox(val) == IF val.kind = "np_int" THEN IntVal(val.n) ELSE val

\* The loop without the skip of line 18 for COMMENT and HISTORY.
RECURSIVE HeaderToDictKeepsFreeText(_, _, _)
HeaderToDictKeepsFreeText(cards, i, d) ==
  IF i > Len(cards) THEN d
  ELSE LET key == cards[i].keyword
       IN  IF key = ""
           THEN HeaderToDictKeepsFreeText(cards, i + 1, d)
           ELSE HeaderToDictKeepsFreeText(cards, i + 1,
                                          Put(d, key, Unbox(cards[i].value)))

RECURSIVE HeaderToDictLoop(_, _, _)
HeaderToDictLoop(cards, i, d) ==
  IF i > Len(cards) THEN d
  ELSE LET key == cards[i].keyword
       IN  IF key = "" \/ key \in {"COMMENT", "HISTORY"}
           THEN HeaderToDictLoop(cards, i + 1, d)
           ELSE HeaderToDictLoop(cards, i + 1, Put(d, key, Unbox(cards[i].value)))

header_to_dict(header) == HeaderToDictLoop(header, 1, EmptyDict)

\* ----------------------------------------------------- extract_comments

RECURSIVE ExtractCommentsLoop(_, _, _)
ExtractCommentsLoop(cards, i, comments) ==
  IF i > Len(cards) THEN comments
  ELSE IF cards[i].keyword # "" /\ cards[i].comment # ""
       THEN ExtractCommentsLoop(cards, i + 1,
                                Put(comments, cards[i].keyword, cards[i].comment))
       ELSE ExtractCommentsLoop(cards, i + 1, comments)

extract_comments(header) == ExtractCommentsLoop(header, 1, EmptyDict)

\* ------------------------------------------------------- image buffers

\* A pixel is a number or NaN; a buffer has a shape (one extent per axis),
\* an element type and its pixels in row-major order.
Num(v) == [nan |-> FALSE, v |-> v]
NaN == [nan |-> TRUE, v |-> 0]

Buffer(shape, vals) == [shape |-> shape, dtype |-> "float32", vals |-> vals]

\* The buffer taken as it is read.
nan_to_num_skipped(data) == data

\* np.nan_to_num of line 165: every NaN becomes 0, the rest is kept.
nan_to_num(data) ==
  [data EXCEPT !.vals = [i \in 1..Len(data.vals) |->
                           IF data.vals[i].nan THEN Num(0) ELSE data.vals[i]]]

HasNaN(data) == \E i \in 1..Len(data.vals) : data.vals[i].nan

\* ------------------------------------------------------------ data_stats

NaNFloat == [num |-> 0, den |-> 0]

RECURSIVE SumTo(_, _)
SumTo(vals, n) == IF n = 0 THEN 0 ELSE SumTo(vals, n - 1) + vals[n].v

RECURSIVE SumSqTo(_, _)
SumSqTo(vals, n) ==
  IF n = 0 THEN 0 ELSE SumSqTo(vals, n - 1) + vals[n].v * vals[n].v

\* The k-th smallest pixel (k from 0) of the sorted buffer.
OrderStat(vals, k) ==
  LET idx == 1..Len(vals)
      x == CHOOSE i \in idx :
             /\ Cardinality({j \in idx : vals[j].v < vals[i].v}) <= k
             /\ Cardinality({j \in idx : vals[j].v <= vals[i].v}) > k
  IN  vals[x].v

\* Lines 72-78.  numpy's reductions yield NaN as soon as one pixel is NaN.
\* std is the square root of the variance, kept as that variance.
data_stats(data) ==
  LET vals == data.vals
      n == Len(vals)
      s == SumTo(vals, n)
  IN  IF HasNaN(data)
      THEN [min |-> NaNFloat, max |-> NaNFloat, mean |-> NaNFloat,
            median |-> NaNFloat, std |-> [sqrt_of |-> NaNFloat]]
      ELSE [min |-> Frac(OrderStat(vals, 0), 1),
            max |-> Frac(OrderStat(vals, n - 1), 1),
            mean |-> Frac(s, n),
            median |-> Frac(OrderStat(vals, (n - 1) \div 2)
                              + OrderStat(vals, n \div 2), 2),
            std |-> [sqrt_of |-> Frac(n * SumSqTo(vals, n) - s * s, n * n)]]

\* ----------------------------------------------------- extract_metadata

DateKeys == <<"DATE-OBS", "DATE_OBS", "DATE", "OBSDATE">>
sun_keys == <<"FNDLMBXC", "FNDLMBYC", "FNDLMBMI", "FNDLMBMA">>

\* The loop giving up at the first candidate that is in the header, parsed
\* or not.
RECURSIVE ObservationTimeStopsAtFirst(_, _, _)
ObservationTimeStopsAtFirst(header, i, meta) ==
  IF i > Len(DateKeys) THEN meta
  ELSE LET k == DateKeys[i]
       IN  IF HeaderContains(header, k)
           THEN IF TimeOk(HeaderGet(header, k))
                THEN Put(meta, "observation_time", TimeIso(HeaderGet(header, k)))
                ELSE meta
           ELSE ObservationTimeStopsAtFirst(header, i + 1, meta)

\* Lines 41-48: the first candidate that is in the header and parses sets
\* observation_time and ends the loop; one that does not parse is passed.
RECURSIVE ObservationTimeLoop(_, _, _)
ObservationTimeLoop(header, i, meta) ==
  IF i > Len(DateKeys) THEN meta
  ELSE LET k == DateKeys[i]
       IN  IF HeaderContains(header, k) /\ TimeOk(HeaderGet(header, k))
           THEN Put(meta, "observation_time", TimeIso(HeaderGet(header, k)))
           ELSE ObservationTimeLoop(header, i + 1, meta)

\* sun_params filled key by key, a value that does not convert left at 0.
SunFromHeaderPartial(header, meta) ==
  IF \A i \in 1..Len(sun_keys) : HeaderContains(header, sun_keys[i])
  THEN LET f(k) == IF FloatOk(HeaderGet(header, k))
                   THEN Float(HeaderGet(header, k)) ELSE Frac(0, 1)
           minor == f("FNDLMBMI")
           major == f("FNDLMBMA")
       IN  Put(meta, "sun_params",
               [cx |-> f("FNDLMBXC"), cy |-> f("FNDLMBYC"),
                radius |-> Frac(minor.num * major.den + major.num * minor.den,
                                4 * minor.den * major.den)])
  ELSE meta

\* Lines 52-65: sun_params is set only after all four float() calls.
SunFromHeader(header, meta) ==
  IF /\ \A i \in 1..Len(sun_keys) : HeaderContains(header, sun_keys[i])
     /\ \A i \in 1..Len(sun_keys) : FloatOk(HeaderGet(header, sun_keys[i]))
  THEN LET cx == Float(HeaderGet(header, "FNDLMBXC"))
           cy == Float(HeaderGet(header, "FNDLMBYC"))
           minor == Float(HeaderGet(header, "FNDLMBMI"))
           major == Float(HeaderGet(header, "FNDLMBMA"))
       IN  Put(meta, "sun_params",
               [cx |-> cx, cy |-> cy,
                radius |-> Frac(minor.num * major.den + major.num * minor.den,
                                4 * minor.den * major.den)])
  ELSE meta

Min(a, b) == IF a <= b THEN a ELSE b

\* Lines 66-68, for a buffer with two axes.
SunDefault(data, meta) ==
  LET h == data.shape[1]
      w == data.shape[2]
  IN  Put(meta, "sun_params",
          [cx |-> Frac(w, 2), cy |-> Frac(h, 2),
           radius |-> Frac(Min(w, h) * 45, 100)])

\* The whole function.  It raises where `h, w = data.shape` unpacks a shape
\* that has not two axes (line 67) and where numpy reduces an empty buffer
\* (line 73); the result then carries no metadata.
extract_metadata(header, data) ==
  LET m1 == Put(EmptyDict, "header", header_to_dict(header))
      comm == extract_comments(header)
      m2 == IF DOMAIN comm # {} THEN Put(m1, "header_comments", comm) ELSE m1
      m3 == ObservationTimeLoop(header, 1, m2)
      m4 == SunFromHeader(header, m3)
      needDefault == "sun_params" \notin DOMAIN m4
  IN  IF (needDefault /\ Len(data.shape) # 2) \/ Len(data.vals) = 0
      THEN [raised |-> TRUE, meta |-> EmptyDict]
      ELSE LET m5 == IF needDefault THEN SunDefault(data, m4) ELSE m4
               m6 == Put(m5, "data_shape", data.shape)
               m7 == Put(m6, "dtype", data.dtype)
           IN  [raised |-> FALSE, meta |-> Put(m7, "data_stats", data_stats(data))]

\* ------------------------------------------------------------ file names

Dot == "."
PngExt == <<".", "p", "n", "g">>
JsonExt == <<".", "j", "s", "o", "n">>
ZipName == <<"c", "o", "n", "v", "e", "r", "t", "e", "d", ".", "z", "i", "p">>
LogName == <<"c", "o", "n", "v", "e", "r", "s", "i", "o", "n", "_",
             "l", "o", "g", ".", "t", "x", "t">>

\* os.path.splitext(fname)[0] of line 172: the name up to its last dot, a
\* dot that starts the name not counted.
splitext(fname) ==
  LET dots == {p \in 2..Len(fname) : fname[p] = Dot}
  IN  IF dots = {} THEN fname
      ELSE SubSeq(fname, 1, (CHOOSE p \in dots : \A q \in dots : q <= p) - 1)

\* ----------------------------------------------------------------- state

VARIABLES
  uploaded,        \* the uploaded files, in upload order: [name, fits]
  outdir,          \* output_dir: file name -> [by, whole]; by = 0 for a file
                   \* that was there before this batch, else the index of the
                   \* upload that wrote it; whole = FALSE for a truncated file
  pc,              \* where the script stands
  i,               \* the loop index of line 159
  header,          \* hdul[0].header of the upload in hand
  raw,             \* hdul[0].data of the upload in hand
  data,            \* the local `data`
  meta,            \* the local `meta`
  name,            \* the local `name`
  render_success,  \* the local `render_success`
  success_count,   \* the counter of line 157
  archive,         \* the ZIP made at line 210: [made, entries]
  debug,           \* what debug_container was told, in order: [kind, file]
  stats_arg,       \* the buffer extract_metadata was last called with
  render_arg       \* the buffer render_png was last called with

vars == <<uploaded, outdir, pc, i, header, raw, data, meta, name,
          render_success, success_count, archive, debug, stats_arg, render_arg>>

NoBuffer == Buffer(<<>>, <<>>)
total == Len(uploaded)

\* ---------------------------------------------------- the uploads drawn

\* A commentary card (COMMENT, HISTORY, blank keyword) read from a file has
\* its text as value and the empty comment.
PlainHeader ==
  <<Card("BITPIX", IntVal(-32), "bits per pixel"),
    Card("COMMENT", StrVal(<<"h", "i">>), ""),
    Card("GAIN", NpIntVal(2), "")>>

NotFits == [valid |-> FALSE, header |-> <<>>, data |-> NoBuffer]
NanImage == [valid |-> TRUE, header |-> PlainHeader,
             data |-> Buffer(<<2, 2>>, <<Num(1), NaN, Num(3), Num(2)>>)]
Spectrum == [valid |-> TRUE, header |-> PlainHeader,
             data |-> Buffer(<<3>>, <<Num(1), Num(2), Num(3)>>)]

FileNames == {<<"a", ".", "f", "i", "t">>, <<"a", ".", "f", "i", "t", "s">>, <<"b", ".", "f", "i", "t", "s">>}

FileInputs == [name : FileNames, fits : {NotFits, NanImage, Spectrum}]

\* What an earlier run of the script on a.fits left in output_dir.
LeftOver ==
  LET f == [by |-> 0, whole |-> TRUE]
  IN  Put(Put(Put(Put(EmptyDict, <<"a">> \o PngExt, f), <<"a">> \o JsonExt, f),
              ZipName, f), LogName, f)

Batches == UNION {[1..n -> FileInputs] : n \in 1..MaxFiles}

\* ------------------------------------------------------- the batch loop

Say(kind, file) == Append(debug, [kind |-> kind, file |-> file])

Locals == <<header, raw, data, meta, name, render_success>>

\* The Convert button was clicked on a non-empty upload (lines 145-157);
\* output_dir exists, fresh or left by an earlier run (lines 127-132).
Init ==
  /\ uploaded \in Batches
  /\ outdir \in {EmptyDict, LeftOver}
  /\ pc = "loop"
  /\ i = 1
  /\ header = <<>>
  /\ raw = NoBuffer
  /\ data = NoBuffer
  /\ meta = EmptyDict
  /\ name = <<>>
  /\ render_success = FALSE
  /\ success_count = 0
  /\ archive = [made |-> FALSE, entries |-> {}]
  /\ debug = <<>>
  /\ stats_arg = NoBuffer
  /\ render_arg = NoBuffer

\* The except clause letting the exception out: the script run ends there.
HandleErrorEscapes(said) ==
  /\ debug' = Append(said, [kind |-> "error", file |-> i])
  /\ i' = i
  /\ pc' = "done"

\* Lines 190-194: the except clause reports the error and the loop goes on
\* to the next upload.
HandleError(said) ==
  /\ debug' = Append(said, [kind |-> "error", file |-> i])
  /\ i' = i + 1
  /\ pc' = "loop"

\* Lines 159-167: fits.open raises on a file that is no FITS file.
OpenFile ==
  /\ pc = "loop" /\ i <= total
  /\ LET file == uploaded[i]
         said == Say("opening", i)
     IN  IF ~file.fits.valid
         THEN /\ HandleError(said)
              /\ UNCHANGED Locals
         ELSE /\ raw' = file.fits.data
              /\ data' = nan_to_num(file.fits.data)
              /\ header' = file.fits.header
              /\ debug' = said
              /\ pc' = "metadata"
              /\ UNCHANGED <<i, meta, name, render_success>>
  /\ UNCHANGED <<uploaded, outdir, success_count, archive, stats_arg, render_arg>>

\* Lines 170-172.
ExtractMetadata ==
  /\ pc = "metadata"
  /\ stats_arg' = data
  /\ LET r == extract_metadata(header, data)
     IN  IF r.raised
         THEN /\ HandleError(debug)
              /\ UNCHANGED <<meta, name>>
         ELSE /\ meta' = r.meta
              /\ name' = splitext(uploaded[i].name)
              /\ pc' = "render"
              /\ UNCHANGED <<i, debug>>
  /\ UNCHANGED <<uploaded, outdir, header, raw, data, render_success,
                 success_count, archive, render_arg>>

\* render_png, lines 81-94: TRUE with the PNG saved, or FALSE when
\* matplotlib raised, be it before fig.savefig created the file or after,
\* which leaves a truncated PNG.
render_png(buf, out_path, outcome) ==
  /\ render_arg' = buf
  /\ render_success' = (outcome = "saved")
  /\ outdir' = CASE outcome = "saved" ->
                      Put(outdir, out_path, [by |-> i, whole |-> TRUE])
                 [] outcome = "savefig_raised" ->
                      Put(outdir, out_path, [by |-> i, whole |-> FALSE])
                 [] OTHER -> outdir

\* A failed render that is reported and then goes on to the JSON.
RenderFailedGoesOn ==
  /\ debug' = Say("render_failed", i)
  /\ i' = i
  /\ pc' = "json"

\* Lines 178-180: a failed render is reported and `continue` takes the loop
\* to the next upload.
RenderFailed ==
  /\ debug' = Say("render_failed", i)
  /\ i' = i + 1
  /\ pc' = "loop"

\* Lines 174-180.
RenderPng ==
  /\ pc = "render"
  /\ \E outcome \in {"saved", "raised", "savefig_raised"} :
       /\ render_png(data, name \o PngExt, outcome)
       /\ IF render_success'
          THEN /\ pc' = "json"
               /\ UNCHANGED <<i, debug>>
          ELSE RenderFailed
  /\ UNCHANGED <<uploaded, header, raw, data, meta, name, success_count,
                 archive, stats_arg>>

\* The counter raised before the JSON is written.
CountedBeforeWrite(outcome) == success_count + 1

\* Line 189: reached only when neither open nor json.dump raised.
Counted(outcome) ==
  IF outcome = "written" THEN success_count + 1 ELSE success_count

\* Lines 182-189: open(json_path, "w") may raise; json.dump may raise after
\* the file was created, which leaves it truncated.
WriteJson ==
  /\ pc = "json"
  /\ LET json_path == name \o JsonExt
         said == Say("writing_json", i)
     IN  \E outcome \in {"written", "open_raised", "dump_raised"} :
           CASE outcome = "written" ->
                  /\ outdir' = Put(outdir, json_path, [by |-> i, whole |-> TRUE])
                  /\ debug' = Append(said, [kind |-> "success", file |-> i])
                  /\ success_count' = Counted(outcome)
                  /\ i' = i + 1
                  /\ pc' = "loop"
             [] outcome = "open_raised" ->
                  /\ HandleError(said)
                  /\ success_count' = Counted(outcome)
                  /\ UNCHANGED outdir
             [] outcome = "dump_raised" ->
                  /\ outdir' = Put(outdir, json_path, [by |-> i, whole |-> FALSE])
                  /\ HandleError(said)
                  /\ success_count' = Counted(outcome)
  /\ UNCHANGED <<uploaded, header, raw, data, meta, name, render_success,
                 archive, stats_arg, render_arg>>

\* Lines 197-247: shutil.make_archive creates converted.zip inside
\* output_dir and then packs every file it finds under output_dir, the
\* new converted.zip among them.  A failure is caught at line 245.
ArchiveResults ==
  /\ pc = "loop" /\ i > total
  /\ success_count > 0
  /\ debug' = Say("zip", 0)
  /\ \E ok \in BOOLEAN :
       IF ok
       THEN /\ outdir' = Put(outdir, ZipName, [by |-> 0, whole |-> TRUE])
            /\ archive' = [made |-> TRUE, entries |-> DOMAIN outdir']
       ELSE UNCHANGED <<outdir, archive>>
  /\ pc' = "log"
  /\ UNCHANGED <<uploaded, i, success_count, stats_arg, render_arg>>
  /\ UNCHANGED Locals

\* Line 197 with success_count = 0: no ZIP, no log.
SkipArchive ==
  /\ pc = "loop" /\ i > total
  /\ success_count = 0
  /\ pc' = "done"
  /\ UNCHANGED <<uploaded, outdir, i, success_count, archive, debug,
                 stats_arg, render_arg>>
  /\ UNCHANGED Locals

\* Lines 249-269: the conversion log, then the summary.
WriteLog ==
  /\ pc = "log"
  /\ \E ok \in BOOLEAN :
       outdir' = IF ok THEN Put(outdir, LogName, [by |-> 0, whole |-> TRUE])
                 ELSE outdir
  /\ pc' = "done"
  /\ UNCHANGED <<uploaded, i, success_count, archive, debug,
                 stats_arg, render_arg>>
  /\ UNCHANGED Locals

Next ==
  \/ OpenFile
  \/ ExtractMetadata
  \/ RenderPng
  \/ WriteJson
  \/ ArchiveResults
  \/ SkipArchive
  \/ WriteLog

Spec == Init /\ [][Next]_vars

\* ------------------------------------- extract_metadata called on its own

\* The headers drawn.  A header is four parts in card order: leading cards,
\* the observation-time candidates, the solar-disk keys, and a closing card
\* that may repeat a keyword met before.
GoodDate ==
  <<StrVal(<<"2", "0", "2", "1", "-", "0", "1", "-", "0", "1", "T", "1", "0", ":", "2", "0", ":", "3", "0">>), StrVal(<<"2", "0", "2", "2", "-", "0", "2", "-", "0", "2">>), StrVal(<<"2", "0", "2", "3", "-", "0", "3", "-", "0", "3", " ", "0", "3", ":", "0", "3", ":", "0", "3">>), StrVal(<<"2", "0", "2", "4", "-", "0", "4", "-", "0", "4">>)>>

BadDate ==
  <<StrVal(<<"n", "o", "o", "n">>), IntVal(2020), StrVal(<<"2", "0", "2", "1", "-", "1", "3", "-", "0", "1">>), UndefVal>>

DateSlot(k) ==
  {<<>>, <<Card(DateKeys[k], GoodDate[k], "observed")>>,
         <<Card(DateKeys[k], BadDate[k], "")>>}

DateParts ==
  {a \o b \o c \o d : a \in DateSlot(1), b \in DateSlot(2),
                      c \in DateSlot(3), d \in DateSlot(4)}

GoodSun == <<IntVal(10), IntVal(20), IntVal(4), IntVal(8)>>

OtherGoodSun == <<StrVal(<<"1", "0", ".", "5">>), NpIntVal(7), StrVal(<<"-", "2">>), StrVal(<<".", "5">>)>>

BadSun == <<StrVal(<<"x">>), UndefVal, StrVal(<<"1", ".", "2", ".", "3">>), StrVal(<<"-">>)>>

SunSlot(k) ==
  {<<>>, <<Card(sun_keys[k], GoodSun[k], "limb fit")>>,
         <<Card(sun_keys[k], OtherGoodSun[k], "")>>,
         <<Card(sun_keys[k], BadSun[k], "")>>}

SunParts ==
  {a \o b \o c \o d : a \in SunSlot(1), b \in SunSlot(2),
                      c \in SunSlot(3), d \in SunSlot(4)}

SunExample == <<Card("FNDLMBXC", IntVal(10), "limb fit"),
                Card("FNDLMBYC", IntVal(20), "limb fit"),
                Card("FNDLMBMI", IntVal(4), "limb fit"),
                Card("FNDLMBMA", IntVal(8), "limb fit")>>

LeadParts ==
  {<<>>,
   <<Card("COMMENT", StrVal(<<"h", "i">>), ""),
     Card("BITPIX", IntVal(-32), "bits per pixel"),
     Card("", StrVal(<<>>), ""),
     Card("HISTORY", StrVal(<<"c", "u", "t">>), ""),
     Card("GAIN", NpIntVal(2), "")>>}

ClosingParts ==
  {<<>>,
   <<Card("DATE-OBS", StrVal(<<"2", "0", "2", "5", "-", "0", "5", "-", "0", "5">>), "")>>,
   <<Card("DATE", IntVal(0), "reduced")>>,
   <<Card("FNDLMBXC", IntVal(99), "refit")>>,
   <<Card("FNDLMBMA", StrVal(<<"?">>), "")>>,
   <<Card("GAIN", IntVal(3), "e/ADU")>>}

HeaderInputs ==
  {l \o d \o s \o c :
     l \in LeadParts, c \in ClosingParts,
     d \in DateParts, s \in {<<>>, SunExample}}
  \cup
  {l \o d \o s \o c :
     l \in LeadParts, c \in ClosingParts,
     d \in {<<>>, <<Card("DATE", GoodDate[3], "")>>}, s \in SunParts}

\* The buffers drawn, NaN already replaced: images of every height and
\* width up to MaxDim, and one-axis buffers.
Ramp(n) == [k \in 1..n |-> Num(k * k - 2)]

BufferInputs ==
  {Buffer(<<h, w>>, Ramp(h * w)) : h \in 1..MaxDim, w \in 1..MaxDim}
  \cup {Buffer(<<n>>, Ramp(n)) : n \in 1..MaxDim}

InitMeta ==
  /\ header \in HeaderInputs
  /\ data \in BufferInputs
  /\ pc = "call"
  /\ meta = EmptyDict
  /\ uploaded = <<>>
  /\ outdir = EmptyDict
  /\ i = 0
  /\ raw = NoBuffer
  /\ name = <<>>
  /\ render_success = FALSE
  /\ success_count = 0
  /\ archive = [made |-> FALSE, entries |-> {}]
  /\ debug = <<>>
  /\ stats_arg = NoBuffer
  /\ render_arg = NoBuffer

\* One call of extract_metadata(header, data), lines 33-79.
CallExtractMetadata ==
  /\ pc = "call"
  /\ LET r == extract_metadata(header, data)
     IN  /\ meta' = r.meta
         /\ pc' = IF r.raised THEN "raised" ELSE "returned"
  /\ stats_arg' = data
  /\ UNCHANGED <<uploaded, outdir, i, header, raw, data, name, render_success,
                 success_count, archive, debug, render_arg>>

SpecMeta == InitMeta /\ [][CallExtractMetadata]_vars

\* ================================================================ claims

Said(kind, k) ==
  \E j \in 1..Len(debug) : debug[j] = [kind |-> kind, file |-> k]

\* The uploads fits.open was called on, in the order of the calls.
Attempted ==
  LET opening(e) == e.kind = "opening"
      msgs == SelectSeq(debug, opening)
  IN  [j \in 1..Len(msgs) |-> msgs[j].file]

AfterLoop == pc \in {"log", "done"}

\* Render and JSON write both went through for upload k: the JSON step was
\* reached (line 183) and no error was reported for the upload.
Completed(k) == Said("writing_json", k) /\ ~Said("error", k)

Failed(k) == Said("error", k) \/ Said("render_failed", k)

PngOf(k) == splitext(uploaded[k].name) \o PngExt
JsonOf(k) == splitext(uploaded[k].name) \o JsonExt

WrittenBy(path, k) == path \in DOMAIN outdir /\ outdir[path].by = k

\* ---- C1 (Spec) ----------------------------------------------------------
\* C1: the batch loop attempts every upload exactly once, in upload order,
\* whatever the outcome of each: inside the loop the uploads attempted so
\* far are 1, 2, ..., each earlier one with exactly one outcome (error,
\* render failure or success), and once the loop is left every upload of
\* the batch was attempted; no failure ends the loop early.
EveryFileAttemptedOnce ==
  /\ \A j \in 1..Len(Attempted) : Attempted[j] = j
  /\ Len(Attempted) = IF pc = "loop" \/ AfterLoop THEN i - 1 ELSE i
  /\ \A k \in 1..(i - 1) :
       Cardinality({o \in {"error", "render_failed", "success"} : Said(o, k)}) = 1
  /\ AfterLoop => Len(Attempted) = total

\* An unparsable upload, then a render failure, then a success.
MixedBatchAllAttempted ==
  /\ pc = "done"
  /\ total = 3
  /\ ~uploaded[1].fits.valid /\ Said("error", 1)
  /\ Said("render_failed", 2)
  /\ Said("success", 3)

\* ---- C2 (Spec) ----------------------------------------------------------
\* C2: the ZIP made after the loop holds exactly {baseName}.png and
\* {baseName}.json of every successfully processed upload of the batch and
\* nothing else (nothing of failed uploads, nothing that was in the output
\* directory before, not the archive itself).
ArchiveHoldsExactlySuccessPairs ==
  archive.made =>
    archive.entries =
      UNION {{PngOf(k), JsonOf(k)} : k \in {k \in 1..total : Said("success", k)}}

\* ---- C3 (Spec) ----------------------------------------------------------
\* C3 as stated: after render_png reported failure for an upload, that
\* upload's metadata JSON is still written to {baseName}.json.
RenderFailureStillWritesJson ==
  \A k \in 1..total :
    (Said("render_failed", k) /\ k < i) => WrittenBy(JsonOf(k), k)

\* C3 as amended: a render failure skips the rest of that upload and only
\* that: the JSON step is not reached for it, no JSON is written for it, it
\* is not reported as a success (nor as an error), and the uploads after it
\* are still attempted.
RenderFailureSkipsFileOnly ==
  \A k \in 1..total :
    Said("render_failed", k) =>
      /\ ~Said("writing_json", k)
      /\ ~Said("success", k)
      /\ ~Said("error", k)
      /\ ~WrittenBy(JsonOf(k), k)
      /\ k < i
      /\ AfterLoop => Len(Attempted) = total

\* A render failure followed by a successful upload.
RenderFailureThenSuccess ==
  /\ pc = "done"
  /\ \E k \in 1..(total - 1) : Said("render_failed", k) /\ Said("success", k + 1)

\* ---- C4 (Spec) ----------------------------------------------------------
\* The buffer with every NaN pixel set to 0 and everything else as read.
Replaced(buf) ==
  [shape |-> buf.shape, dtype |-> buf.dtype,
   vals |-> [j \in 1..Len(buf.vals) |->
               IF buf.vals[j].nan THEN [nan |-> FALSE, v |-> 0] ELSE buf.vals[j]]]

IsNaNFloat(x) == x.den = 0

\* C4: for the upload in hand the NaN-to-0 replacement is made once, when
\* the file is read, before the statistics and before the render: from then
\* on `data` is the replaced buffer, extract_metadata and render_png are
\* both handed that same buffer, none of them ever sees a NaN, and the
\* statistics are those of the replaced buffer with no NaN among them.
NanReplacedBeforeStatsAndRender ==
  /\ ~HasNaN(stats_arg) /\ ~HasNaN(render_arg)
  /\ pc \in {"metadata", "render", "json"} => data = Replaced(raw)
  /\ pc \in {"render", "json"} =>
       /\ stats_arg = Replaced(raw)
       /\ meta["data_stats"] = data_stats(Replaced(raw))
       /\ \A f \in {"min", "max", "mean", "median"} :
            ~IsNaNFloat(meta["data_stats"][f])
       /\ ~IsNaNFloat(meta["data_stats"]["std"].sqrt_of)
  /\ pc = "json" => render_arg = stats_arg /\ render_arg = Replaced(raw)
  /\ (pc = "loop" /\ i > 1 /\ Said("render_failed", i - 1)) =>
       render_arg = stats_arg /\ render_arg = Replaced(raw)

\* A buffer read with a NaN in it, after both calls.
NanBufferRendered ==
  /\ pc = "json"
  /\ HasNaN(raw)
  /\ render_arg = data /\ stats_arg = data

\* ---- C9 (Spec) ----------------------------------------------------------
\* C9: success_count is the number of uploads for which render and JSON
\* write both went through, so it lies between 0 and total; after the loop
\* total - success_count is the number of uploads that failed at some step,
\* and the ZIP is attempted exactly when success_count > 0.
SuccessCountMatches ==
  /\ success_count = Cardinality({k \in 1..total : Completed(k) /\ k < i})
  /\ success_count >= 0 /\ success_count <= total
  /\ AfterLoop =>
       /\ total - success_count = Cardinality({k \in 1..total : Failed(k)})
       /\ Said("zip", 0) <=> success_count > 0
       /\ archive.made => success_count > 0

\* Three uploads, two successes, and the ZIP made.
TwoOfThreeSucceeded ==
  /\ pc = "done"
  /\ total = 3
  /\ success_count = 2
  /\ ~Completed(2)
  /\ archive.made

\* ---- C10 (Spec) ---------------------------------------------------------
\* C10: uploads with different names that were both counted in
\* success_count never overwrite each other's outputs: after the loop no
\* .png or .json of a counted upload was last written by another counted
\* upload, and the counted uploads have success_count different pairs.
OutputsNeverOverwritten ==
  (AfterLoop /\ \A j, k \in 1..total : j # k => uploaded[j].name # uploaded[k].name) =>
    LET counted == {k \in 1..total : Said("success", k)}
    IN  /\ \A k \in counted : \A path \in {PngOf(k), JsonOf(k)} :
             /\ path \in DOMAIN outdir
             /\ outdir[path].by \in counted => outdir[path].by = k
        /\ Cardinality({PngOf(k) : k \in counted}) = success_count
        /\ Cardinality({JsonOf(k) : k \in counted}) = success_count

\* ---- C5 (SpecMeta) ------------------------------------------------------
Keywords(h) == {h[j].keyword : j \in 1..Len(h)}

\* The value of the one card of h that holds keyword k, or of the first of
\* them.
ValueOf(h, k) ==
  h[CHOOSE j \in 1..Len(h) :
      h[j].keyword = k /\ \A l \in 1..(j - 1) : h[l].keyword # k].value

SunKeySet == {"FNDLMBXC", "FNDLMBYC", "FNDLMBMI", "FNDLMBMA"}

SunUsable(h) ==
  /\ SunKeySet \subseteq Keywords(h)
  /\ \A k \in SunKeySet : FloatOk(ValueOf(h, k))

DefaultSun(buf) ==
  [cx |-> Frac(buf.shape[2], 2), cy |-> Frac(buf.shape[1], 2),
   radius |-> Frac(45 * Min(buf.shape[1], buf.shape[2]), 100)]

\* C5: for a buffer with two axes, sun_params is {cx: FNDLMBXC,
\* cy: FNDLMBYC, radius: (FNDLMBMI + FNDLMBMA)/4} when the four keys are in
\* the header and all four values convert to a number, and otherwise is
\* exactly {cx: w/2, cy: h/2, radius: min(w, h) * 0.45}, be a key missing
\* or a value not convertible; the values 10, 20, 4, 8 give {10, 20, 3}.
SunParamsFromHeaderOrDefault ==
  (pc = "returned" /\ Len(data.shape) = 2) =>
    /\ "sun_params" \in DOMAIN meta
    /\ IF SunUsable(header)
       THEN LET mi == Float(ValueOf(header, "FNDLMBMI"))
                ma == Float(ValueOf(header, "FNDLMBMA"))
                sum == Frac(mi.num * ma.den + ma.num * mi.den, mi.den * ma.den)
            IN  /\ meta["sun_params"].cx = Float(ValueOf(header, "FNDLMBXC"))
                /\ meta["sun_params"].cy = Float(ValueOf(header, "FNDLMBYC"))
                /\ meta["sun_params"].radius = Frac(sum.num, 4 * sum.den)
       ELSE meta["sun_params"] = DefaultSun(data)
    /\ header = SunExample =>
         meta["sun_params"] = [cx |-> [num |-> 10, den |-> 1],
                               cy |-> [num |-> 20, den |-> 1],
                               radius |-> [num |-> 3, den |-> 1]]

\* The four keys are there, one value does not convert, and the result is
\* the default.
SunUnparsableGivesDefault ==
  /\ pc = "returned"
  /\ Len(data.shape) = 2 /\ data.shape[1] # data.shape[2]
  /\ SunKeySet \subseteq Keywords(header)
  /\ ~FloatOk(ValueOf(header, "FNDLMBMI"))
  /\ \A k \in SunKeySet \ {"FNDLMBMI"} : FloatOk(ValueOf(header, k))
  /\ meta["sun_params"] = DefaultSun(data)

\* ---- C6 (SpecMeta) ------------------------------------------------------
Parsable(h) ==
  {c \in 1..4 : DateKeys[c] \in Keywords(h) /\ TimeOk(ValueOf(h, DateKeys[c]))}

\* C6: observation_time comes from the first of DATE-OBS, DATE_OBS, DATE,
\* OBSDATE that is in the header with a value that parses; a candidate
\* whose value does not parse is passed over; with no such candidate the
\* field is absent.  With DATE-OBS and DATE both parsable it is DATE-OBS's.
ObservationTimeFirstParsable ==
  pc = "returned" =>
    /\ IF Parsable(header) = {}
       THEN "observation_time" \notin DOMAIN meta
       ELSE LET c == CHOOSE c \in Parsable(header) : \A e \in Parsable(header) : c <= e
            IN  /\ "observation_time" \in DOMAIN meta
                /\ meta["observation_time"] = TimeIso(ValueOf(header, DateKeys[c]))
    /\ ({1, 3} \subseteq Parsable(header) /\ ValueOf(header, "DATE-OBS") = GoodDate[1]) =>
         meta["observation_time"] = <<"2", "0", "2", "1", "-", "0", "1", "-", "0", "1", " ", "1", "0", ":", "2", "0", ":", "3", "0", ".", "0", "0", "0">>

\* DATE-OBS is there and does not parse, DATE_OBS is missing, DATE parses.
UnparsableCandidatePassedOver ==
  /\ pc = "returned"
  /\ "DATE-OBS" \in Keywords(header) /\ 1 \notin Parsable(header)
  /\ "DATE_OBS" \notin Keywords(header)
  /\ 3 \in Parsable(header)
  /\ meta["observation_time"] = TimeIso(ValueOf(header, "DATE"))

\* ---- C7 (SpecMeta) ------------------------------------------------------
FreeText(k) == k = "" \/ k \in {"COMMENT", "HISTORY"}

\* The header with every keyword that is not free text reduced to one card:
\* its first under rule "first", its last under rule "last".
RECURSIVE Resolve(_, _, _)
Resolve(h, j, rule) ==
  IF j > Len(h) THEN <<>>
  ELSE (IF \/ FreeText(h[j].keyword)
           \/ rule = "first" /\ \A l \in 1..(j - 1) : h[l].keyword # h[j].keyword
           \/ rule = "last" /\ \A l \in (j + 1)..Len(h) : h[l].keyword # h[j].keyword
        THEN <<h[j]>> ELSE <<>>) \o Resolve(h, j + 1, rule)

\* C7: within one run a key held by several cards is resolved by one rule,
\* first-seen or last-seen, everywhere: `header`, `header_comments`,
\* observation_time and sun_params are all what they would be had only the
\* first (or only the last) card of every such key been in the header.
DuplicateKeysResolvedConsistently ==
  pc = "returned" =>
    \E rule \in {"first", "last"} :
      meta = extract_metadata(Resolve(header, 1, rule), data).meta

\* ---- C8 (SpecMeta) ------------------------------------------------------
\* C8: `header` has exactly the non-empty keys other than COMMENT and
\* HISTORY; `header_comments` has a key only if the key is in `header` and
\* a card of that key has a non-empty comment, and is absent when there is
\* no such key.
HeaderAndCommentKeys ==
  pc = "returned" =>
    LET commented == {k \in Keywords(header) :
                        /\ ~FreeText(k)
                        /\ \E j \in 1..Len(header) :
                             header[j].keyword = k /\ header[j].comment # ""}
    IN  /\ DOMAIN meta["header"] = {k \in Keywords(header) : ~FreeText(k)}
        /\ "header_comments" \in DOMAIN meta <=> commented # {}
        /\ "header_comments" \in DOMAIN meta =>
             /\ DOMAIN meta["header_comments"] = commented
             /\ DOMAIN meta["header_comments"] \subseteq DOMAIN meta["header"]
             /\ \A k \in commented : meta["header_comments"][k] # ""

\* A header with free-text cards, a commented key and an uncommented one.
FreeTextAndCommentsSeen ==
  /\ pc = "returned"
  /\ {"COMMENT", "HISTORY", ""} \subseteq Keywords(header)
  /\ "header_comments" \in DOMAIN meta
  /\ "BITPIX" \in DOMAIN meta["header_comments"]
  /\ "GAIN" \in DOMAIN meta["header"] \ DOMAIN meta["header_comments"]

\* A header none of whose cards has a comment: header_comments is absent.
NoCommentsSeen ==
  /\ pc = "returned"
  /\ header # <<>>
  /\ "header_comments" \notin DOMAIN meta

====
